---- MODULE Spec2Model ----
(***************************************************************************)
(* The travel store of traveled-world (store/travelStore.ts): cities,      *)
(* trips and preferences, the mutating commands, the snapshot history      *)
(* with its cursor, undo/redo and importData.                              *)
(*                                                                         *)
(* Coordinates are integers in thousandths of a degree, so the source's    *)
(* tolerance 0.01 is Tolerance = 10.  historyIndex is 0-based as in the    *)
(* source; TLA+ sequences are 1-based, so the snapshot at the cursor is    *)
(* history[historyIndex + 1].  A snapshot's timestamp (Date.now()) is read *)
(* by no operation and is left out.                                        *)
(***************************************************************************)
EXTENDS Integers, Sequences, FiniteSets, TLC

VARIABLES
    cities,        \* TravelState.cities
    trips,         \* TravelState.trips
    preferences,   \* TravelState.preferences
    history,       \* TravelState.history
    historyIndex,  \* TravelState.historyIndex (0-based)
    citiesAlias,   \* which snapshot's cities array is the very object held as live cities (0: none)
    tripsAlias,    \* which snapshot's trips array is the very object held as live trips (0: none)
    lastOp,        \* the command that ran last, how it ended, the cursor and history length before it
    exportedFile,  \* the content of the file the header's export wrote last
    lawPhase,      \* undo/redo law scenario: where the scenario stands
    lawN,          \* ... the number of successful mutating commands since the mark
    lawK,          \* ... the number of undo() (then redo()) calls made so far
    lawBase,       \* ... cities/trips of the state S the sequence started from
    lawPost        \* ... cities/trips of the state S' the sequence ended in

storeVars == <<cities, trips, preferences, history, historyIndex>>
aliasVars == <<citiesAlias, tripsAlias>>
lawVars == <<lawPhase, lawN, lawK, lawBase, lawPost>>
vars == <<cities, trips, preferences, history, historyIndex, citiesAlias, tripsAlias,
          lastOp, exportedFile, lawPhase, lawN, lawK, lawBase, lawPost>>

----------------------------------------------------------------------------
(* Program constants *)

maxHistorySize == 50

Tolerance == 10

NULL == "null"

defaultPreferences == [defaultView |-> "3d", selectedTripId |-> NULL]

----------------------------------------------------------------------------
(* Bounds and input sets *)

\* Spec: the longest history a command may build (the source's cap is 50).
MaxHistoryLen == 2

CityIds == {"c1", "c2"}
TripIds == {"t1"}

\* (0,0)-(5,5) and (5,5)-(0,10) collide; (0,0)-(0,10) do not (lng differs by
\* exactly the tolerance).
Coords == {<<0, 0>>, <<5, 5>>, <<0, 10>>}

City(id, coordinates, type) ==
    [id |-> id, coordinates |-> coordinates, type |-> type, lastVisited |-> 1,
     dateAdded |-> "day0"]

Trip(id, cityIds, dates) == [id |-> id, cityIds |-> cityIds, dates |-> dates]

CityInputs ==
    { City("c1", <<0, 0>>, "visited"), City("c2", <<5, 5>>, "visited"),
      City("c2", <<0, 10>>, "visited"), City("c1", <<0, 10>>, "visited") }

CityUpdates == {[type |-> "lived"], [coordinates |-> <<5, 5>>]}

TripInputs ==
    { Trip("t1", <<"c1">>, <<"d1">>),
      Trip("t1", <<"c1", "c2">>, <<"d1", "d2">>) }

TripUpdates == {[cityIds |-> <<"c2">>, dates |-> <<"d2">>]}

PreferenceUpdates == {[selectedTripId |-> "t1"], [selectedTripId |-> NULL]}

\* A payload field is an array with its items, or something that is no array.
Array(items) == [isArray |-> TRUE, items |-> items]
NotArray == [isArray |-> FALSE, items |-> <<>>]
\* data.preferences is a (partial) preferences object, or absent.
Present(fields) == [present |-> TRUE, fields |-> fields]
Absent == [present |-> FALSE, fields |-> [defaultView |-> "3d"]]

ImportInputs ==
    { [cities |-> Array(<<>>), trips |-> Array(<<>>), preferences |-> Absent],
      [cities |-> Array(<<City("c1", <<0, 0>>, "visited"), City("c2", <<5, 5>>, "lived")>>),
       trips |-> Array(<<Trip("t1", <<"c2", "c1">>, <<"d2", "d1">>)>>),
       preferences |-> Present([selectedTripId |-> "t1"])],
      [cities |-> NotArray, trips |-> Array(<<Trip("t1", <<"c2">>, <<"d2">>)>>),
       preferences |-> Absent] }

\* The content of a file: text that JSON.parse rejects, or the JSON value it
\* parses to (null, a number, a string, an array, an object).  An object's
\* cities and trips are arrays or anything else (missing, a string, ...), its
\* preferences an object or missing.
FileContent(kind, cs, ts, prefs) ==
    [kind |-> kind, cities |-> cs, trips |-> ts, preferences |-> prefs,
     exportedAt |-> NULL, version |-> NULL]

NoFile == FileContent("none", NotArray, NotArray, Absent)

FileInputs ==
    { FileContent("unparsable", NotArray, NotArray, Absent),
      FileContent("null", NotArray, NotArray, Absent),
      FileContent("number", NotArray, NotArray, Absent),
      FileContent("string", NotArray, NotArray, Absent),
      FileContent("array", NotArray, NotArray, Absent),
      FileContent("object", NotArray, Array(<<Trip("t1", <<"c1">>, <<"d1">>)>>),
                  Present([selectedTripId |-> "t1"])),
      FileContent("object", Array(<<City("c2", <<5, 5>>, "lived")>>), NotArray, Absent) }

----------------------------------------------------------------------------
(* Helpers *)

Abs(x) == IF x < 0 THEN -x ELSE x

Min(S) == CHOOSE x \in S : \A y \in S : x <= y

\* The elements of an array (what includes() looks through).
Range(seq) == {seq[i] : i \in 1..Len(seq)}

\* { ...a, ...b }: b's fields over a's.
Spread(a, b) ==
    [f \in (DOMAIN a) \cup (DOMAIN b) |-> IF f \in DOMAIN b THEN b[f] ELSE a[f]]

\* The predicate of addCity's find: c and city are within the tolerance in
\* both latitude and longitude.
WithinTolerance(c, city) ==
    /\ Abs(c.coordinates[1] - city.coordinates[1]) < Tolerance
    /\ Abs(c.coordinates[2] - city.coordinates[2]) < Tolerance

\* state.cities.find(...): the index of the first match, 0 for undefined.
\* Mutant of duplicateCity: the find compares the coordinates for equality.
duplicateCity_exactMatch(cs, city) ==
    LET hits == {i \in 1..Len(cs) : cs[i].coordinates = city.coordinates}
    IN  IF hits = {} THEN 0 ELSE Min(hits)

\* Mutant of duplicateCity: of the cities within the tolerance the closest
\* one is found.
duplicateCity_closest(cs, city) ==
    LET hits == {i \in 1..Len(cs) : WithinTolerance(cs[i], city)}
        far(i) == Abs(cs[i].coordinates[1] - city.coordinates[1])
                  + Abs(cs[i].coordinates[2] - city.coordinates[2])
    IN  IF hits = {} THEN 0
        ELSE Min({i \in hits : \A j \in hits : far(i) <= far(j)})

duplicateCity(cs, city) ==
    LET hits == {i \in 1..Len(cs) : WithinTolerance(cs[i], city)}
    IN  IF hits = {} THEN 0 ELSE Min(hits)

deepClone(obj) == obj

createHistorySnapshot(cs, ts) == [cities |-> deepClone(cs), trips |-> deepClone(ts)]

\* Mutant of addToHistory: the history is not sliced at the cursor.
addToHistory_keepsRedoBranch(h, idx, cs, ts) ==
    LET newHistory == Append(h, createHistorySnapshot(cs, ts))
    IN  IF Len(newHistory) > maxHistorySize
        THEN [history |-> Tail(newHistory), historyIndex |-> Len(Tail(newHistory)) - 1]
        ELSE [history |-> newHistory, historyIndex |-> idx + 1]

\* Mutant of addToHistory: beyond the cap the newest entry before the new
\* snapshot is dropped, not the oldest.
addToHistory_dropsNewest(h, idx, cs, ts) ==
    LET kept == SubSeq(h, 1, idx + 1)
        newHistory == Append(kept, createHistorySnapshot(cs, ts))
    IN  IF Len(newHistory) > maxHistorySize
        THEN [history |-> Append(SubSeq(kept, 1, Len(kept) - 1), createHistorySnapshot(cs, ts)),
              historyIndex |-> Len(kept) - 1]
        ELSE [history |-> newHistory, historyIndex |-> idx + 1]

\* Mutant of addToHistory: the cursor is advanced by one also when the
\* oldest snapshot is dropped.
addToHistory_staleIndex(h, idx, cs, ts) ==
    LET newHistory == Append(SubSeq(h, 1, idx + 1), createHistorySnapshot(cs, ts))
    IN  IF Len(newHistory) > maxHistorySize
        THEN [history |-> Tail(newHistory), historyIndex |-> idx + 1]
        ELSE [history |-> newHistory, historyIndex |-> idx + 1]

addToHistory(h, idx, cs, ts) ==
    LET newHistory == Append(SubSeq(h, 1, idx + 1), createHistorySnapshot(cs, ts))
    IN  IF Len(newHistory) > maxHistorySize
        THEN [history |-> Tail(newHistory), historyIndex |-> Len(Tail(newHistory)) - 1]
        ELSE [history |-> newHistory, historyIndex |-> idx + 1]

\* Mutant of canUndo: the comparison is off by one.
canUndo_offByOne == historyIndex >= 0

canUndo == historyIndex > 0

canRedo == historyIndex < Len(history) - 1

\* What lastOp records of a command: its name (and outcome), and the cursor
\* and the history's length in the state it was called in.
Op(name) ==
    [op |-> name, historyIndex |-> historyIndex, length |-> Len(history),
     duplicateCityId |-> NULL]

\* Object identity of the live arrays.  A command builds the array it sets
\* anew ([...spread], map, filter) and deepClone builds the snapshot's arrays
\* anew; the array a command does not set stays the object it was.  a is the
\* position of the snapshot that object belongs to: the snapshot is cut off
\* when it lay after the cursor idx, and moves down by one when the oldest
\* snapshot is evicted.
keptAlias(a, idx) ==
    IF a = 0 \/ a > idx + 1 THEN 0
    ELSE IF idx + 2 > maxHistorySize THEN a - 1
    ELSE a

CommitOps == {"addCity", "updateCity", "deleteCity", "addTrip", "updateTrip", "deleteTrip"}

----------------------------------------------------------------------------
(* The store's commands *)

Init ==
    /\ cities = <<>>
    /\ trips = <<>>
    /\ preferences = defaultPreferences
    /\ history = <<createHistorySnapshot(<<>>, <<>>)>>
    /\ historyIndex = 0
    /\ citiesAlias = 0
    /\ tripsAlias = 0
    /\ lastOp = [op |-> "init", historyIndex |-> 0, length |-> 1, duplicateCityId |-> NULL]
    /\ exportedFile = NoFile
    /\ lawPhase = "off"
    /\ lawN = 0
    /\ lawK = 0
    /\ lawBase = createHistorySnapshot(<<>>, <<>>)
    /\ lawPost = createHistorySnapshot(<<>>, <<>>)

\* Mutant of addCity: the new city is put in front of the others.
addCity_prepends(city) ==
    IF duplicateCity(cities, city) # 0
    THEN /\ lastOp' = [Op("addCity:error") EXCEPT
                          !.duplicateCityId = cities[duplicateCity(cities, city)].id]
         /\ UNCHANGED <<storeVars, aliasVars>>
    ELSE LET newCities == <<city>> \o cities
             historyUpdate == addToHistory(history, historyIndex, newCities, trips)
         IN  /\ cities' = newCities
             /\ history' = historyUpdate.history
             /\ historyIndex' = historyUpdate.historyIndex
             /\ citiesAlias' = 0
             /\ tripsAlias' = keptAlias(tripsAlias, historyIndex)
             /\ lastOp' = Op("addCity")
             /\ UNCHANGED <<trips, preferences>>

addCity(city) ==
    IF duplicateCity(cities, city) # 0
    THEN \* throw: nothing is set
         /\ lastOp' = [Op("addCity:error") EXCEPT
                          !.duplicateCityId = cities[duplicateCity(cities, city)].id]
         /\ UNCHANGED <<storeVars, aliasVars>>
    ELSE LET newCities == Append(cities, city)
             historyUpdate == addToHistory(history, historyIndex, newCities, trips)
         IN  /\ cities' = newCities
             /\ history' = historyUpdate.history
             /\ historyIndex' = historyUpdate.historyIndex
             /\ citiesAlias' = 0
             /\ tripsAlias' = keptAlias(tripsAlias, historyIndex)
             /\ lastOp' = Op("addCity")
             /\ UNCHANGED <<trips, preferences>>

\* Mutant of updateCity: an id that no city has ends the command before
\* anything is set.
updateCity_skipsWhenMissing(id, updates) ==
    IF \A i \in 1..Len(cities) : cities[i].id # id
    THEN /\ lastOp' = Op("updateCity")
         /\ UNCHANGED <<storeVars, aliasVars>>
    ELSE LET newCities == [i \in 1..Len(cities) |->
                             IF cities[i].id = id THEN Spread(cities[i], updates) ELSE cities[i]]
             historyUpdate == addToHistory(history, historyIndex, newCities, trips)
         IN  /\ cities' = newCities
             /\ history' = historyUpdate.history
             /\ historyIndex' = historyUpdate.historyIndex
             /\ citiesAlias' = 0
             /\ tripsAlias' = keptAlias(tripsAlias, historyIndex)
             /\ lastOp' = Op("updateCity")
             /\ UNCHANGED <<trips, preferences>>

\* Mutant of updateCity: new coordinates are checked against the other
\* cities as addCity checks them.
updateCity_checksCoordinates(id, updates) ==
    IF /\ "coordinates" \in DOMAIN updates
       /\ \E i \in 1..Len(cities) :
             /\ cities[i].id # id
             /\ WithinTolerance(cities[i], [coordinates |-> updates.coordinates])
    THEN /\ lastOp' = Op("updateCity:error")
         /\ UNCHANGED <<storeVars, aliasVars>>
    ELSE LET newCities == [i \in 1..Len(cities) |->
                             IF cities[i].id = id THEN Spread(cities[i], updates) ELSE cities[i]]
             historyUpdate == addToHistory(history, historyIndex, newCities, trips)
         IN  /\ cities' = newCities
             /\ history' = historyUpdate.history
             /\ historyIndex' = historyUpdate.historyIndex
             /\ citiesAlias' = 0
             /\ tripsAlias' = keptAlias(tripsAlias, historyIndex)
             /\ lastOp' = Op("updateCity")
             /\ UNCHANGED <<trips, preferences>>

updateCity(id, updates) ==
    LET newCities == [i \in 1..Len(cities) |->
                        IF cities[i].id = id THEN Spread(cities[i], updates) ELSE cities[i]]
        historyUpdate == addToHistory(history, historyIndex, newCities, trips)
    IN  /\ cities' = newCities
        /\ history' = historyUpdate.history
        /\ historyIndex' = historyUpdate.historyIndex
        /\ citiesAlias' = 0
        /\ tripsAlias' = keptAlias(tripsAlias, historyIndex)
        /\ lastOp' = Op("updateCity")
        /\ UNCHANGED <<trips, preferences>>

\* Mutant of deleteCity: the city is removed, the trips are left as they are.
deleteCity_noCascade(id) ==
    LET newCities == SelectSeq(cities, LAMBDA city : city.id # id)
        historyUpdate == addToHistory(history, historyIndex, newCities, trips)
    IN  /\ cities' = newCities
        /\ history' = historyUpdate.history
        /\ historyIndex' = historyUpdate.historyIndex
        /\ citiesAlias' = 0
        /\ tripsAlias' = keptAlias(tripsAlias, historyIndex)
        /\ lastOp' = Op("deleteCity")
        /\ UNCHANGED <<trips, preferences>>

\* Mutant of deleteCity: the removal and the cascade are committed as two
\* snapshots.
deleteCity_twoCommits(id) ==
    LET newCities == SelectSeq(cities, LAMBDA city : city.id # id)
        newTrips == [i \in 1..Len(trips) |->
                        [trips[i] EXCEPT !.cityIds = SelectSeq(@, LAMBDA cityId : cityId # id)]]
        first == addToHistory(history, historyIndex, newCities, trips)
        historyUpdate == addToHistory(first.history, first.historyIndex, newCities, newTrips)
    IN  /\ cities' = newCities
        /\ trips' = newTrips
        /\ history' = historyUpdate.history
        /\ historyIndex' = historyUpdate.historyIndex
        /\ citiesAlias' = 0
        /\ tripsAlias' = 0
        /\ lastOp' = Op("deleteCity")
        /\ UNCHANGED preferences

\* Mutant of deleteCity: a trip left without cities is removed.
deleteCity_dropsEmptyTrips(id) ==
    LET newCities == SelectSeq(cities, LAMBDA city : city.id # id)
        cascaded == [i \in 1..Len(trips) |->
                        [trips[i] EXCEPT !.cityIds = SelectSeq(@, LAMBDA cityId : cityId # id)]]
        newTrips == SelectSeq(cascaded, LAMBDA trip : trip.cityIds # <<>>)
        historyUpdate == addToHistory(history, historyIndex, newCities, newTrips)
    IN  /\ cities' = newCities
        /\ trips' = newTrips
        /\ history' = historyUpdate.history
        /\ historyIndex' = historyUpdate.historyIndex
        /\ citiesAlias' = 0
        /\ tripsAlias' = 0
        /\ lastOp' = Op("deleteCity")
        /\ UNCHANGED preferences

deleteCity(id) ==
    LET newCities == SelectSeq(cities, LAMBDA city : city.id # id)
        newTrips == [i \in 1..Len(trips) |->
                        [trips[i] EXCEPT !.cityIds = SelectSeq(@, LAMBDA cityId : cityId # id)]]
        historyUpdate == addToHistory(history, historyIndex, newCities, newTrips)
    IN  /\ cities' = newCities
        /\ trips' = newTrips
        /\ history' = historyUpdate.history
        /\ historyIndex' = historyUpdate.historyIndex
        /\ citiesAlias' = 0
        /\ tripsAlias' = 0
        /\ lastOp' = Op("deleteCity")
        /\ UNCHANGED preferences

\* Mutant of addTrip: the snapshot is taken of the trips before the new one.
addTrip_snapshotsOld(trip) ==
    LET newTrips == Append(trips, trip)
        historyUpdate == addToHistory(history, historyIndex, cities, trips)
    IN  /\ trips' = newTrips
        /\ history' = historyUpdate.history
        /\ historyIndex' = historyUpdate.historyIndex
        /\ citiesAlias' = keptAlias(citiesAlias, historyIndex)
        /\ tripsAlias' = 0
        /\ lastOp' = Op("addTrip")
        /\ UNCHANGED <<cities, preferences>>

addTrip(trip) ==
    LET newTrips == Append(trips, trip)
        historyUpdate == addToHistory(history, historyIndex, cities, newTrips)
    IN  /\ trips' = newTrips
        /\ history' = historyUpdate.history
        /\ historyIndex' = historyUpdate.historyIndex
        /\ citiesAlias' = keptAlias(citiesAlias, historyIndex)
        /\ tripsAlias' = 0
        /\ lastOp' = Op("addTrip")
        /\ UNCHANGED <<cities, preferences>>

updateTrip(id, updates) ==
    LET newTrips == [i \in 1..Len(trips) |->
                        IF trips[i].id = id THEN Spread(trips[i], updates) ELSE trips[i]]
        historyUpdate == addToHistory(history, historyIndex, cities, newTrips)
    IN  /\ trips' = newTrips
        /\ history' = historyUpdate.history
        /\ historyIndex' = historyUpdate.historyIndex
        /\ citiesAlias' = keptAlias(citiesAlias, historyIndex)
        /\ tripsAlias' = 0
        /\ lastOp' = Op("updateTrip")
        /\ UNCHANGED <<cities, preferences>>

deleteTrip(id) ==
    LET newTrips == SelectSeq(trips, LAMBDA trip : trip.id # id)
        historyUpdate == addToHistory(history, historyIndex, cities, newTrips)
    IN  /\ trips' = newTrips
        /\ history' = historyUpdate.history
        /\ historyIndex' = historyUpdate.historyIndex
        /\ citiesAlias' = keptAlias(citiesAlias, historyIndex)
        /\ tripsAlias' = 0
        /\ lastOp' = Op("deleteTrip")
        /\ UNCHANGED <<cities, preferences>>

\* Mutant of updatePreferences: the given object replaces the preferences.
updatePreferences_replaces(prefs) ==
    /\ preferences' = prefs
    /\ lastOp' = Op("updatePreferences")
    /\ UNCHANGED <<cities, trips, history, historyIndex, aliasVars>>

updatePreferences(prefs) ==
    /\ preferences' = Spread(preferences, prefs)
    /\ lastOp' = Op("updatePreferences")
    /\ UNCHANGED <<cities, trips, history, historyIndex, aliasVars>>

\* Mutant of undo: the trips of the snapshot are not restored.
undo_citiesOnly ==
    /\ lastOp' = Op("undo")
    /\ IF historyIndex > 0
       THEN LET previousState == history[(historyIndex - 1) + 1]
            IN  /\ cities' = previousState.cities
                /\ historyIndex' = historyIndex - 1
                /\ citiesAlias' = historyIndex
                /\ UNCHANGED <<trips, tripsAlias, preferences, history>>
       ELSE UNCHANGED <<storeVars, aliasVars>>

\* Mutant of undo: at cursor 0 the live collections are emptied.
undo_clearsAtStart ==
    /\ lastOp' = Op("undo")
    /\ IF historyIndex > 0
       THEN LET previousState == history[(historyIndex - 1) + 1]
            IN  /\ cities' = previousState.cities
                /\ trips' = previousState.trips
                /\ historyIndex' = historyIndex - 1
                /\ citiesAlias' = historyIndex
                /\ tripsAlias' = historyIndex
                /\ UNCHANGED <<preferences, history>>
       ELSE /\ cities' = <<>>
            /\ trips' = <<>>
            /\ citiesAlias' = 0
            /\ tripsAlias' = 0
            /\ UNCHANGED <<preferences, history, historyIndex>>

\* Mutant of undo: the preferences go back to the defaults with the step.
undo_resetsPreferences ==
    /\ lastOp' = Op("undo")
    /\ IF historyIndex > 0
       THEN LET previousState == history[(historyIndex - 1) + 1]
            IN  /\ cities' = previousState.cities
                /\ trips' = previousState.trips
                /\ historyIndex' = historyIndex - 1
                /\ citiesAlias' = (historyIndex - 1) + 1
                /\ tripsAlias' = (historyIndex - 1) + 1
                /\ preferences' = defaultPreferences
                /\ UNCHANGED history
       ELSE UNCHANGED <<storeVars, aliasVars>>

undo ==
    /\ lastOp' = Op("undo")
    /\ IF historyIndex > 0
       THEN LET previousState == history[(historyIndex - 1) + 1]
            IN  /\ cities' = previousState.cities
                /\ trips' = previousState.trips
                /\ historyIndex' = historyIndex - 1
                /\ citiesAlias' = (historyIndex - 1) + 1
                /\ tripsAlias' = (historyIndex - 1) + 1
                /\ UNCHANGED <<preferences, history>>
       ELSE UNCHANGED <<storeVars, aliasVars>>

redo ==
    /\ lastOp' = Op("redo")
    /\ IF historyIndex < Len(history) - 1
       THEN LET nextState == history[(historyIndex + 1) + 1]
            IN  /\ cities' = nextState.cities
                /\ trips' = nextState.trips
                /\ historyIndex' = historyIndex + 1
                /\ citiesAlias' = (historyIndex + 1) + 1
                /\ tripsAlias' = (historyIndex + 1) + 1
                /\ UNCHANGED <<preferences, history>>
       ELSE UNCHANGED <<storeVars, aliasVars>>

\* Mutant of importData: the import is committed like a command, on top of
\* the history.
importData_keepsHistory(data) ==
    LET newCities == IF data.cities.isArray THEN data.cities.items ELSE cities
        newTrips == IF data.trips.isArray THEN data.trips.items ELSE trips
        newPreferences == IF data.preferences.present
                          THEN Spread(preferences, data.preferences.fields)
                          ELSE preferences
        historyUpdate == addToHistory(history, historyIndex, newCities, newTrips)
    IN  /\ cities' = newCities
        /\ trips' = newTrips
        /\ preferences' = newPreferences
        /\ history' = historyUpdate.history
        /\ historyIndex' = historyUpdate.historyIndex
        /\ citiesAlias' = IF data.cities.isArray THEN 0 ELSE keptAlias(citiesAlias, historyIndex)
        /\ tripsAlias' = IF data.trips.isArray THEN 0 ELSE keptAlias(tripsAlias, historyIndex)
        /\ lastOp' = Op("importData")

importData(data) ==
    LET newCities == IF data.cities.isArray THEN data.cities.items ELSE cities
        newTrips == IF data.trips.isArray THEN data.trips.items ELSE trips
        newPreferences == IF data.preferences.present
                          THEN Spread(preferences, data.preferences.fields)
                          ELSE preferences
        newHistory == <<createHistorySnapshot(newCities, newTrips)>>
    IN  /\ cities' = newCities
        /\ trips' = newTrips
        /\ preferences' = newPreferences
        /\ history' = newHistory
        /\ historyIndex' = 0
        /\ citiesAlias' = 0
        /\ tripsAlias' = 0
        /\ lastOp' = Op("importData")

----------------------------------------------------------------------------
(* The header's export and import of a file (lib/dataExportImport.ts,      *)
(* Header.tsx)                                                             *)

\* {}: an object without fields.
EmptyObject == [f \in {} |-> NULL]

\* Mutant of exportToJson: the preferences are left out of the document.
exportToJson_noPreferences(cs, ts, prefs) ==
    [kind |-> "object", cities |-> Array(cs), trips |-> Array(ts),
     preferences |-> Absent, exportedAt |-> "now", version |-> "1.0"]

\* JSON.stringify of { cities, trips, preferences, exportedAt, version }; the
\* stored values are strings, numbers, null and arrays and objects of them,
\* which JSON text carries unchanged.
exportToJson(cs, ts, prefs) ==
    [kind |-> "object", cities |-> Array(cs), trips |-> Array(ts),
     preferences |-> Present(prefs), exportedAt |-> "now", version |-> "1.0"]

\* Mutant of importFromJson: the fields of the document are handed on as
\* they are.
importFromJson_passesThrough(jsonContent) ==
    IF jsonContent.kind \notin {"object", "array"}
    THEN [ok |-> FALSE, data |-> [cities |-> NotArray, trips |-> NotArray, preferences |-> Absent]]
    ELSE [ok |-> TRUE,
          data |-> [cities |-> jsonContent.cities,
                    trips |-> jsonContent.trips,
                    preferences |-> jsonContent.preferences]]

\* Mutant of importFromJson: content that is no object gives an empty
\* payload, not an error.
importFromJson_lenientOnInvalid(jsonContent) ==
    [ok |-> TRUE,
     data |-> [cities |-> Array(IF jsonContent.cities.isArray
                                THEN jsonContent.cities.items ELSE <<>>),
               trips |-> Array(IF jsonContent.trips.isArray
                               THEN jsonContent.trips.items ELSE <<>>),
               preferences |-> Present(IF jsonContent.preferences.present
                                       THEN jsonContent.preferences.fields
                                       ELSE EmptyObject)]]

\* JSON.parse throws on text that is no JSON; a value that is falsy or no
\* object (an array is an object) throws 'Invalid JSON format'.
importFromJson(jsonContent) ==
    IF jsonContent.kind \notin {"object", "array"}
    THEN [ok |-> FALSE, data |-> [cities |-> NotArray, trips |-> NotArray, preferences |-> Absent]]
    ELSE [ok |-> TRUE,
          data |-> [cities |-> Array(IF jsonContent.cities.isArray
                                     THEN jsonContent.cities.items ELSE <<>>),
                    trips |-> Array(IF jsonContent.trips.isArray
                                    THEN jsonContent.trips.items ELSE <<>>),
                    preferences |-> Present(IF jsonContent.preferences.present
                                            THEN jsonContent.preferences.fields
                                            ELSE EmptyObject)]]

handleExport ==
    /\ exportedFile' = exportToJson(cities, trips, preferences)
    /\ lastOp' = Op("handleExport")
    /\ UNCHANGED <<storeVars, aliasVars>>

\* try { importData(await importFromJson(fileContent)) } catch { toast }
handleFileChange(fileContent) ==
    /\ IF importFromJson(fileContent).ok
       THEN importData(importFromJson(fileContent).data)
       ELSE /\ lastOp' = Op("handleFileChange:error")
            /\ UNCHANGED <<storeVars, aliasVars>>
    /\ UNCHANGED exportedFile

----------------------------------------------------------------------------
(* Derived views *)

\* The cities of cs taken in the order of the ids.
RECURSIVE InOrderOf(_, _)
InOrderOf(cs, ids) ==
    IF ids = <<>> THEN <<>>
    ELSE SelectSeq(cs, LAMBDA city : city.id = Head(ids)) \o InOrderOf(cs, Tail(ids))

\* Mutant of useFilteredCities: the cities come in the order of the trip's
\* cityIds.
useFilteredCities_tripOrder ==
    IF preferences.selectedTripId = NULL THEN cities
    ELSE LET found == {i \in 1..Len(trips) : trips[i].id = preferences.selectedTripId}
         IN  IF found = {} THEN cities
             ELSE LET selectedTrip == trips[Min(found)]
                  IN  InOrderOf(cities, selectedTrip.cityIds)

\* !preferences.selectedTripId holds for null (and for an absent field);
\* trips.find gives the first trip with the id.
useFilteredCities ==
    IF preferences.selectedTripId = NULL THEN cities
    ELSE LET found == {i \in 1..Len(trips) : trips[i].id = preferences.selectedTripId}
         IN  IF found = {} THEN cities
             ELSE LET selectedTrip == trips[Min(found)]
                  IN  SelectSeq(cities, LAMBDA city : city.id \in Range(selectedTrip.cityIds))

----------------------------------------------------------------------------
(* The city list's rendering (components/input/CityList.tsx)               *)

\* new Date(d).getTime() of a dateAdded; lastVisited is kept as a day number.
Time(d) == IF d = "day0" THEN 0 ELSE 1

\* The comparator of result.sort: negative when a is to come before b.
Compare(a, b, sortBy, sortAscending) ==
    LET comparison == IF sortBy = "date-visited"
                      THEN a.lastVisited - b.lastVisited
                      ELSE Time(a.dateAdded) - Time(b.dateAdded)
    IN  IF sortAscending THEN comparison ELSE -comparison

\* Array.prototype.sort: stable, in the order of the comparator.
RECURSIVE Insert(_, _, _, _)
Insert(x, sorted, sortBy, sortAscending) ==
    IF sorted = <<>> THEN <<x>>
    ELSE IF Compare(x, Head(sorted), sortBy, sortAscending) < 0
         THEN <<x>> \o sorted
         ELSE <<Head(sorted)>> \o Insert(x, Tail(sorted), sortBy, sortAscending)

RECURSIVE Sort(_, _, _)
Sort(cs, sortBy, sortAscending) ==
    IF cs = <<>> THEN <<>>
    ELSE Insert(cs[Len(cs)], Sort(SubSeq(cs, 1, Len(cs) - 1), sortBy, sortAscending),
                sortBy, sortAscending)

\* processedCities of CityList: result starts as the store's cities array;
\* a selected trip that is found, or a continent or country filter that is
\* not 'all' (filtered), makes result a new array (filter); then result.sort
\* sorts result in place.  Without any filter result is the store's array
\* itself, and with it the array of the snapshot it is aliased to.
processedCities(sortBy, sortAscending, filtered) ==
    LET tripFound == /\ preferences.selectedTripId # NULL
                     /\ \E i \in 1..Len(trips) : trips[i].id = preferences.selectedTripId
        sorted == Sort(cities, sortBy, sortAscending)
    IN  /\ lastOp' = Op("processedCities")
        /\ IF tripFound \/ filtered
           THEN UNCHANGED <<cities, history>>
           ELSE /\ cities' = sorted
                /\ history' = IF citiesAlias = 0 THEN history
                               ELSE [history EXCEPT ![citiesAlias].cities = sorted]
        /\ UNCHANGED <<trips, preferences, historyIndex, aliasVars>>

\* A component reads useFilteredCities: nothing is set.
filteredCities ==
    /\ lastOp' = Op("useFilteredCities")
    /\ UNCHANGED <<storeVars, aliasVars>>

----------------------------------------------------------------------------
(* The undo and redo handlers (App.tsx, Header.tsx, useKeyboardShortcuts)  *)

\* What undo() and redo() make of the cursor and the live collections s; the
\* history stays.
Live == [cities |-> cities, trips |-> trips, historyIndex |-> historyIndex,
         citiesAlias |-> citiesAlias, tripsAlias |-> tripsAlias]

undone(s) ==
    IF s.historyIndex > 0
    THEN LET previousState == history[(s.historyIndex - 1) + 1]
         IN  [cities |-> previousState.cities, trips |-> previousState.trips,
              historyIndex |-> s.historyIndex - 1,
              citiesAlias |-> (s.historyIndex - 1) + 1,
              tripsAlias |-> (s.historyIndex - 1) + 1]
    ELSE s

redone(s) ==
    IF s.historyIndex < Len(history) - 1
    THEN LET nextState == history[(s.historyIndex + 1) + 1]
         IN  [cities |-> nextState.cities, trips |-> nextState.trips,
              historyIndex |-> s.historyIndex + 1,
              citiesAlias |-> (s.historyIndex + 1) + 1,
              tripsAlias |-> (s.historyIndex + 1) + 1]
    ELSE s

\* App: handleUndo = () => { undo(); showToast(...) }, returns undefined.
AppHandleUndo(s) == undone(s)
AppHandleRedo(s) == redone(s)

\* Header: handleUndo = () => { onUndo?.() || (undo(), showToast(...)) } with
\* onUndo = App's handleUndo: its result undefined is falsy, so undo() runs
\* after it.
HeaderHandleUndo(s) == undone(AppHandleUndo(s))
HeaderHandleRedo(s) == redone(AppHandleRedo(s))

\* One keydown of Ctrl/Cmd+Z outside an input: the window has the listener
\* of Header's useKeyboardShortcuts and that of App's (effects of a child
\* run first); each tests canUndo() when it runs and calls its onUndo.
KeydownUndo(s) ==
    LET afterHeader == IF s.historyIndex > 0 THEN HeaderHandleUndo(s) ELSE s
    IN  IF afterHeader.historyIndex > 0 THEN AppHandleUndo(afterHeader) ELSE afterHeader

KeydownRedo(s) ==
    LET afterHeader == IF s.historyIndex < Len(history) - 1 THEN HeaderHandleRedo(s) ELSE s
    IN  IF afterHeader.historyIndex < Len(history) - 1
        THEN AppHandleRedo(afterHeader) ELSE afterHeader

SetLive(s, name) ==
    /\ cities' = s.cities
    /\ trips' = s.trips
    /\ historyIndex' = s.historyIndex
    /\ citiesAlias' = s.citiesAlias
    /\ tripsAlias' = s.tripsAlias
    /\ lastOp' = Op(name)
    /\ UNCHANGED <<preferences, history>>

\* One click on the header's undo (redo) button.
clickUndo == SetLive(HeaderHandleUndo(Live), "clickUndo")
clickRedo == SetLive(HeaderHandleRedo(Live), "clickRedo")

keydownUndo == SetLive(KeydownUndo(Live), "keydownUndo")
keydownRedo == SetLive(KeydownRedo(Live), "keydownRedo")

----------------------------------------------------------------------------
(* Spec: every command with the wide input sets; a command that commits a  *)
(* snapshot runs only while the history it builds stays within             *)
(* MaxHistoryLen.                                                          *)

CommitFits == historyIndex + 2 <= MaxHistoryLen

Next ==
    \/ \E city \in CityInputs :
          CommitFits /\ addCity(city) /\ UNCHANGED <<lawVars, exportedFile>>
    \/ \E id \in CityIds, updates \in CityUpdates :
          CommitFits /\ updateCity(id, updates) /\ UNCHANGED <<lawVars, exportedFile>>
    \/ \E id \in CityIds : CommitFits /\ deleteCity(id) /\ UNCHANGED <<lawVars, exportedFile>>
    \/ \E trip \in TripInputs :
          CommitFits /\ addTrip(trip) /\ UNCHANGED <<lawVars, exportedFile>>
    \/ \E id \in TripIds, updates \in TripUpdates :
          CommitFits /\ updateTrip(id, updates) /\ UNCHANGED <<lawVars, exportedFile>>
    \/ \E id \in TripIds : CommitFits /\ deleteTrip(id) /\ UNCHANGED <<lawVars, exportedFile>>
    \/ \E prefs \in PreferenceUpdates : updatePreferences(prefs) /\ UNCHANGED <<lawVars, exportedFile>>
    \/ undo /\ UNCHANGED <<lawVars, exportedFile>>
    \/ redo /\ UNCHANGED <<lawVars, exportedFile>>
    \/ \E data \in ImportInputs : importData(data) /\ UNCHANGED <<lawVars, exportedFile>>

Spec == Init /\ [][Next]_vars

----------------------------------------------------------------------------
(* SpecPatch: the city commands alone, with updates over every field that  *)
(* Partial<City> lets a caller pass to updateCity, id and dateAdded among   *)
(* them.                                                                    *)

MaxPatchHistoryLen == 3

CityPatches == CityUpdates \cup {[id |-> "c2"], [dateAdded |-> "day1"]}

NextPatch ==
    \/ \E city \in CityInputs :
          /\ historyIndex + 2 <= MaxPatchHistoryLen
          /\ addCity(city) /\ UNCHANGED <<lawVars, exportedFile>>
    \/ \E id \in CityIds, updates \in CityPatches :
          /\ historyIndex + 2 <= MaxPatchHistoryLen
          /\ updateCity(id, updates) /\ UNCHANGED <<lawVars, exportedFile>>
    \/ undo /\ UNCHANGED <<lawVars, exportedFile>>
    \/ redo /\ UNCHANGED <<lawVars, exportedFile>>

SpecPatch == Init /\ [][NextPatch]_vars

----------------------------------------------------------------------------
(* SpecFile: files go out and come in through the header while cities are  *)
(* added, preferences change and undo and redo run.  The file that comes   *)
(* in is any of FileInputs or the file exported last.                      *)

MaxFileHistoryLen == 3

FileCities == {City("c1", <<0, 0>>, "visited"), City("c2", <<0, 10>>, "visited")}

NextFile ==
    \/ \E city \in FileCities :
          /\ historyIndex + 2 <= MaxFileHistoryLen
          /\ addCity(city) /\ UNCHANGED <<lawVars, exportedFile>>
    \/ \E prefs \in PreferenceUpdates :
          updatePreferences(prefs) /\ UNCHANGED <<lawVars, exportedFile>>
    \/ undo /\ UNCHANGED <<lawVars, exportedFile>>
    \/ redo /\ UNCHANGED <<lawVars, exportedFile>>
    \/ handleExport /\ UNCHANGED lawVars
    \/ \E fileContent \in FileInputs \cup {exportedFile} :
          /\ fileContent # NoFile
          /\ handleFileChange(fileContent) /\ UNCHANGED lawVars

SpecFile == Init /\ [][NextFile]_vars

----------------------------------------------------------------------------
(* SpecView: the application around the store.  Cities visited on          *)
(* different days are added and a trip is made and selected, the city list *)
(* is rendered in its sort modes with and without filters, and undo and    *)
(* redo are asked for by the header's buttons and by the keyboard.         *)

MaxViewHistoryLen == 4

ViewCities ==
    { City("c1", <<0, 0>>, "visited"),
      [City("c2", <<0, 10>>, "visited") EXCEPT !.lastVisited = 2] }

NextView ==
    \/ \E city \in ViewCities :
          /\ historyIndex + 2 <= MaxViewHistoryLen
          /\ addCity(city) /\ UNCHANGED <<lawVars, exportedFile>>
    \/ \E trip \in TripInputs :
          /\ historyIndex + 2 <= MaxViewHistoryLen
          /\ trips = <<>>
          /\ addTrip(trip) /\ UNCHANGED <<lawVars, exportedFile>>
    \/ \E prefs \in PreferenceUpdates :
          updatePreferences(prefs) /\ UNCHANGED <<lawVars, exportedFile>>
    \/ \E sortBy \in {"date-visited", "date-added"}, sortAscending \in BOOLEAN,
          filtered \in BOOLEAN :
          processedCities(sortBy, sortAscending, filtered) /\ UNCHANGED <<lawVars, exportedFile>>
    \/ filteredCities /\ UNCHANGED <<lawVars, exportedFile>>
    \/ clickUndo /\ UNCHANGED <<lawVars, exportedFile>>
    \/ clickRedo /\ UNCHANGED <<lawVars, exportedFile>>
    \/ keydownUndo /\ UNCHANGED <<lawVars, exportedFile>>
    \/ keydownRedo /\ UNCHANGED <<lawVars, exportedFile>>

SpecView == Init /\ [][NextView]_vars

----------------------------------------------------------------------------
(* SpecCap: histories up to the cap of 50.  One user repeats a round of    *)
(* four commits (add a city, make a trip of it, delete the city, delete    *)
(* the trip), tries a nearby duplicate, and calls undo and redo anywhere.  *)
(* Each live state enables one commit, so the histories stay few while     *)
(* neighbouring snapshots differ.                                          *)

RoundCity == City("c1", <<0, 0>>, "visited")
NearbyCity == City("c2", <<5, 5>>, "visited")
RoundTrip == Trip("t1", <<"c1">>, <<"d1">>)

RoundCommit ==
    \/ cities = <<>> /\ trips = <<>> /\ addCity(RoundCity)
    \/ cities # <<>> /\ trips = <<>> /\ addTrip(RoundTrip)
    \/ cities # <<>> /\ trips # <<>> /\ deleteCity("c1")
    \/ cities = <<>> /\ trips # <<>> /\ deleteTrip("t1")

NextCap ==
    \/ RoundCommit /\ UNCHANGED <<lawVars, exportedFile>>
    \/ cities # <<>> /\ addCity(NearbyCity) /\ UNCHANGED <<lawVars, exportedFile>>
    \/ undo /\ UNCHANGED <<lawVars, exportedFile>>
    \/ redo /\ UNCHANGED <<lawVars, exportedFile>>

SpecCap == Init /\ [][NextCap]_vars

----------------------------------------------------------------------------
(* SpecLaw: the undo/redo law as a scenario over the same round of         *)
(* commits.  From a state S reached by a few commands (history at most     *)
(* LawPreLen long) the scenario is marked; then come lawN successful       *)
(* mutating commands (at most LawMaxN), then lawN calls of undo(), then    *)
(* lawN calls of redo().                                                   *)

LawPreLen == 3
LawMaxN == 51

LawPre ==
    /\ lawPhase = "off"
    /\ \/ historyIndex + 2 <= LawPreLen /\ RoundCommit
       \/ undo
       \/ redo
    /\ UNCHANGED <<lawVars, exportedFile>>

LawMark ==
    /\ lawPhase = "off"
    /\ lawPhase' = "commands"
    /\ lawBase' = [cities |-> cities, trips |-> trips]
    /\ lawN' = 0
    /\ UNCHANGED <<storeVars, aliasVars, lastOp, lawK, lawPost, exportedFile>>

LawCommand ==
    /\ lawPhase = "commands"
    /\ lawN < LawMaxN
    /\ RoundCommit
    /\ lawN' = lawN + 1
    /\ UNCHANGED <<lawPhase, lawK, lawBase, lawPost, exportedFile>>

LawFailedCommand ==
    /\ lawPhase = "commands"
    /\ cities # <<>>
    /\ addCity(NearbyCity)
    /\ UNCHANGED <<lawVars, exportedFile>>

LawBeginUndo ==
    /\ lawPhase = "commands"
    /\ lawPhase' = "undo"
    /\ lawPost' = [cities |-> cities, trips |-> trips]
    /\ lawK' = 0
    /\ UNCHANGED <<storeVars, aliasVars, lastOp, lawN, lawBase, exportedFile>>

LawUndo ==
    /\ lawPhase = "undo"
    /\ lawK < lawN
    /\ undo
    /\ lawK' = lawK + 1
    /\ UNCHANGED <<lawPhase, lawN, lawBase, lawPost, exportedFile>>

LawBeginRedo ==
    /\ lawPhase = "undo"
    /\ lawK = lawN
    /\ lawPhase' = "redo"
    /\ lawK' = 0
    /\ UNCHANGED <<storeVars, aliasVars, lastOp, lawN, lawBase, lawPost, exportedFile>>

LawRedo ==
    /\ lawPhase = "redo"
    /\ lawK < lawN
    /\ redo
    /\ lawK' = lawK + 1
    /\ UNCHANGED <<lawPhase, lawN, lawBase, lawPost, exportedFile>>

NextLaw ==
    \/ LawPre
    \/ LawMark
    \/ LawCommand
    \/ LawFailedCommand
    \/ LawBeginUndo
    \/ LawUndo
    \/ LawBeginRedo
    \/ LawRedo

SpecLaw == Init /\ [][NextLaw]_vars

----------------------------------------------------------------------------
(* Claims.  In Spec and SpecCap every step is one command, and lastOp'     *)
(* names it; lastOp.historyIndex and lastOp.length are the cursor and the  *)
(* history's length in the state the command was called in.                *)

CityIdsOf(cs) == {cs[i].id : i \in 1..Len(cs)}

Committed == lastOp'.op \in CommitOps

\* C1: whenever some stored city is within the tolerance of the candidate in
\* both latitude and longitude, addCity fails with an error and leaves cities,
\* trips, history and historyIndex exactly as they were.
C1_DuplicateAddFails ==
    [][\A city \in CityInputs :
          (/\ \E i \in 1..Len(cities) : WithinTolerance(cities[i], city)
           /\ addCity(city))
          => /\ lastOp'.op = "addCity:error"
             /\ UNCHANGED <<cities, trips, history, historyIndex>>]_vars

\* C1 witness: addCity has just failed on a store that holds a city.
C1_Witness ==
    /\ lastOp.op = "addCity:error"
    /\ cities # <<>>
    /\ Len(history) = lastOp.length

\* C2 (the claim as stated): no two stored cities are within the tolerance
\* of each other in both latitude and longitude.
C2_NoTwoCitiesWithinTolerance ==
    \A i, j \in 1..Len(cities) : i # j => ~WithinTolerance(cities[i], cities[j])

\* C3: right after deleteCity(id) no stored city has that id and no trip
\* lists it in cityIds.
C3_DeleteCityCascades ==
    [][\A id \in CityIds :
          deleteCity(id)
          => /\ id \notin CityIdsOf(cities')
             /\ \A t \in 1..Len(trips') : id \notin Range(trips'[t].cityIds)]_vars

\* C3 witness: deleteCity has just removed a city that a trip listed.
C3_Witness ==
    /\ lastOp.op = "deleteCity"
    /\ historyIndex > 0
    /\ \E id \in CityIdsOf(history[historyIndex].cities) :
          /\ \E t \in 1..Len(history[historyIndex].trips) :
                id \in Range(history[historyIndex].trips[t].cityIds)
          /\ id \notin CityIdsOf(cities)

\* C4 (the claim as stated): every id in every trip's cityIds is the id of a
\* stored city.
C4_TripsReferenceStoredCities ==
    \A t \in 1..Len(trips) : Range(trips[t].cityIds) \subseteq CityIdsOf(cities)

\* C5 (the claim as stated): after n successful mutating commands from S to
\* S', n calls of undo() make cities and trips those of S, and n calls of
\* redo() then make them those of S', for every n.
C5_InverseLawAnyN ==
    /\ (lawPhase = "undo" /\ lawK = lawN)
          => (cities = lawBase.cities /\ trips = lawBase.trips)
    /\ (lawPhase = "redo" /\ lawK = lawN)
          => (cities = lawPost.cities /\ trips = lawPost.trips)

\* C5 (amended): the same for every n below the history cap
\* (n < maxHistorySize), where the snapshot of S is still in the history.
C5_InverseLawBelowCap ==
    /\ (lawPhase = "undo" /\ lawK = lawN /\ lawN < maxHistorySize)
          => (cities = lawBase.cities /\ trips = lawBase.trips)
    /\ (lawPhase = "redo" /\ lawK = lawN /\ lawN < maxHistorySize)
          => (cities = lawPost.cities /\ trips = lawPost.trips)

\* C5 witness: the scenario has run to its end with the largest n below the
\* cap, from a state S that differs from S'.
C5_Witness ==
    /\ lawPhase = "redo"
    /\ lawK = lawN
    /\ lawN = maxHistorySize - 1
    /\ lawBase # lawPost

\* C6: after a successful mutating command canRedo() is false, the new
\* snapshot is the last one, and everything before it lay at or before the
\* cursor: no snapshot that lay after the cursor is left in the history.
C6_BranchTruncation ==
    [][Committed =>
          LET kept == SubSeq(history, 1, historyIndex + 1)
          IN  /\ ~(historyIndex' < Len(history') - 1)
              /\ history'[Len(history')] = [cities |-> cities', trips |-> trips']
              /\ SubSeq(history', 1, Len(history') - 1) \in {kept, Tail(kept)}]_vars

\* C6 witness: a command has just been committed from a state reached by two
\* or more undo() calls, and canRedo() is false.
C6_Witness ==
    /\ lastOp.op \in CommitOps
    /\ lastOp.historyIndex + 2 < lastOp.length
    /\ ~canRedo

\* C7: the history never holds more than maxHistorySize snapshots, and a
\* commit that would exceed the cap removes exactly the oldest snapshot and
\* keeps the others in order, followed by the new one.
C7_HistoryCap ==
    /\ [](Len(history) <= maxHistorySize)
    /\ [][(Committed /\ historyIndex + 2 > maxHistorySize) =>
             history' = Append(Tail(SubSeq(history, 1, historyIndex + 1)),
                               [cities |-> cities', trips |-> trips'])]_vars

\* C7 witness: a commit has just been made on a full history with the cursor
\* at its end, and the history is still full.
C7_Witness ==
    /\ lastOp.op \in CommitOps
    /\ lastOp.historyIndex + 2 > maxHistorySize
    /\ Len(history) = maxHistorySize

\* C8: after importData the history is exactly one snapshot of the live
\* cities and trips, the cursor is 0, and canUndo() and canRedo() are false.
C8_ImportResetsHistory ==
    [][\A data \in ImportInputs :
          importData(data)
          => /\ history' = <<[cities |-> cities', trips |-> trips']>>
             /\ historyIndex' = 0
             /\ ~(historyIndex' > 0)
             /\ ~(historyIndex' < Len(history') - 1)]_vars

\* C8 witness: importData has just run in a state that had redo entries
\* pending, and the store holds imported cities.
C8_Witness ==
    /\ lastOp.op = "importData"
    /\ lastOp.historyIndex < lastOp.length - 1
    /\ cities # <<>>

\* C9: the store starts with one snapshot of empty cities and trips at cursor
\* 0 and canUndo() false; while nothing has been committed on top of a single
\* snapshot, updatePreferences, undo and redo keep it so; right after a
\* successful mutating command canUndo() is true.
C9_CanUndoOnlyAfterCommit ==
    /\ history = <<[cities |-> <<>>, trips |-> <<>>]>>
    /\ historyIndex = 0
    /\ ~canUndo
    /\ [][(Len(history) = 1 /\ ~canUndo /\ lastOp'.op \in {"updatePreferences", "undo", "redo"})
             => (Len(history') = 1 /\ ~canUndo')]_vars
    /\ [][Committed => canUndo']_vars

\* C9 witness: the first command on top of a single snapshot has just been
\* committed and canUndo() is true.
C9_Witness ==
    /\ lastOp.op \in CommitOps
    /\ lastOp.length = 1
    /\ canUndo

\* C10: undo() at cursor 0 and redo() at the last index leave cities, trips,
\* preferences, history and historyIndex unchanged.
C10_UndoRedoNoOp ==
    [][/\ (lastOp'.op = "undo" /\ ~canUndo) => UNCHANGED storeVars
       /\ (lastOp'.op = "redo" /\ ~canRedo) => UNCHANGED storeVars]_vars

\* C10 witness: redo() has just been called at the last index of a history
\* whose cursor is 0 (undo() is a no-op there too), on a store that holds
\* cities.
C10_Witness ==
    /\ lastOp.op = "redo"
    /\ lastOp.historyIndex = lastOp.length - 1
    /\ lastOp.historyIndex = 0
    /\ cities # <<>>

\* Whether some trip of ts lists the city id.
Listed(id, ts) == \E t \in 1..Len(ts) : id \in Range(ts[t].cityIds)

\* The scenario's one command (n = 1) was deleteCity(id) of a city that a trip
\* listed: S holds the city and lists it, S' does not hold it.
LawDeletedListed(id) ==
    /\ lawPhase \in {"undo", "redo"}
    /\ lawN = 1
    /\ id \in CityIdsOf(lawBase.cities)
    /\ Listed(id, lawBase.trips)
    /\ id \notin CityIdsOf(lawPost.cities)

\* C11: deleteCity commits one combined snapshot.  When the one command of
\* the scenario deleted a city X that a trip listed, a single undo() brings
\* back X in cities and the trips as they were, and the following redo()
\* leaves X neither stored nor listed; and no snapshot of the history holds a
\* trip that lists a city the snapshot does not store, or stores a city its
\* trips do not list (in the round X is the only city and T the only trip).
C11_DeleteCityOneSnapshot ==
    /\ \A id \in CityIds :
          LawDeletedListed(id) =>
             /\ (lawPhase = "undo" /\ lawK = 1)
                   => /\ id \in CityIdsOf(cities)
                      /\ cities = lawBase.cities
                      /\ trips = lawBase.trips
             /\ (lawPhase = "redo" /\ lawK = 1)
                   => /\ id \notin CityIdsOf(cities)
                      /\ ~Listed(id, trips)
    /\ \A k \in 1..Len(history) : \A id \in CityIds :
          \A t \in 1..Len(history[k].trips) :
             id \in Range(history[k].trips[t].cityIds) <=> id \in CityIdsOf(history[k].cities)

\* C11 witness: deleteCity of a listed city, one undo() and one redo() have
\* run, and the city is gone again.
C11_Witness ==
    /\ LawDeletedListed("c1")
    /\ lawPhase = "redo"
    /\ lawK = 1
    /\ "c1" \notin CityIdsOf(cities)
    /\ trips # <<>>

\* C12: updatePreferences(p) gives every field of p its value in p, keeps
\* every other preference field, and leaves cities, trips, history and
\* historyIndex, and with them canUndo() and canRedo(), as they were.
C12_UpdatePreferencesMerges ==
    [][\A prefs \in PreferenceUpdates :
          updatePreferences(prefs)
          => /\ DOMAIN preferences' = (DOMAIN preferences) \cup (DOMAIN prefs)
             /\ \A f \in DOMAIN prefs : preferences'[f] = prefs[f]
             /\ \A f \in (DOMAIN preferences) \ (DOMAIN prefs) : preferences'[f] = preferences[f]
             /\ UNCHANGED <<cities, trips, history, historyIndex>>
             /\ canUndo' = canUndo
             /\ canRedo' = canRedo]_vars

\* C12 witness: updatePreferences has just selected a trip on a store whose
\* history can be undone; the other preference field has its value.
C12_Witness ==
    /\ lastOp.op = "updatePreferences"
    /\ preferences.selectedTripId = "t1"
    /\ preferences.defaultView = "3d"
    /\ canUndo
    /\ Len(history) = lastOp.length

\* C13: undo() and redo() leave the preferences as they were.
C13_UndoRedoKeepPreferences ==
    [][lastOp'.op \in {"undo", "redo"} => preferences' = preferences]_vars

\* C13 witness: undo() has just moved the cursor back on a store whose
\* preferences had been changed from the defaults.
C13_Witness ==
    /\ lastOp.op = "undo"
    /\ lastOp.historyIndex > 0
    /\ historyIndex = lastOp.historyIndex - 1
    /\ preferences # defaultPreferences

\* C14 (the claim as stated): in every reachable state, also right after
\* undo() or redo(), the live cities array and the live trips array are the
\* objects of no snapshot of the history.
C14_NoAliasing ==
    /\ citiesAlias = 0
    /\ tripsAlias = 0

\* C15: when selectedTripId is null or names no stored trip, the filtered
\* cities are the cities, in order; otherwise they are the cities whose ids the
\* selected trip (the first trip with that id) lists, each once, in the order
\* of the cities collection: the j-th result is the city at the j-th smallest
\* listed position.
C15_FilteredCities ==
    LET sel == preferences.selectedTripId
        named == {i \in 1..Len(trips) : trips[i].id = sel}
        r == useFilteredCities
    IN  IF sel = NULL \/ named = {}
        THEN r = cities
        ELSE LET T == trips[CHOOSE i \in named : \A j \in named : i <= j]
                 I == {i \in 1..Len(cities) : cities[i].id \in Range(T.cityIds)}
             IN  /\ Len(r) = Cardinality(I)
                 /\ \A j \in 1..Len(r) :
                       \E i \in I : /\ Cardinality({k \in I : k <= i}) = j
                                    /\ r[j] = cities[i]

\* C15 witness: a stored trip is selected that lists two stored cities in
\* the other order than the cities collection holds them.
C15_Witness ==
    /\ preferences.selectedTripId = "t1"
    /\ \E i \in 1..Len(trips) : trips[i].id = "t1"
    /\ Len(useFilteredCities) = 2
    /\ trips[1].cityIds = <<cities[2].id, cities[1].id>>
    /\ cities[1].id # cities[2].id

\* C16: a successful addCity(c) makes c the last city, keeps the earlier
\* cities as they were and in their order, leaves the trips as they were, and
\* adds one snapshot, of the new cities and the trips, on top of the snapshots
\* up to the cursor (less the oldest at the cap); the cursor is at that last
\* snapshot.
C16_AddCityAppends ==
    [][\A city \in CityInputs :
          (addCity(city) /\ lastOp'.op = "addCity")
          => /\ Len(cities') = Len(cities) + 1
             /\ cities'[Len(cities')] = city
             /\ \A i \in 1..Len(cities) : cities'[i] = cities[i]
             /\ trips' = trips
             /\ Len(history') = IF historyIndex + 2 > maxHistorySize
                                 THEN maxHistorySize ELSE historyIndex + 2
             /\ \A k \in 1..(Len(history') - 1) :
                   history'[k] = history[k + (historyIndex + 2 - Len(history'))]
             /\ history'[Len(history')] = [cities |-> cities', trips |-> trips']
             /\ historyIndex' = Len(history') - 1]_vars

\* C16 witness: addCity has just succeeded on a store that held a city and a
\* trip.
C16_Witness ==
    /\ lastOp.op = "addCity"
    /\ Len(cities) >= 2
    /\ trips # <<>>
    /\ historyIndex = lastOp.historyIndex + 1

\* C17: when addCity fails, the error's duplicateCityId is the id of the
\* first city, in stored order, that is within the tolerance of the candidate
\* in both latitude and longitude, and a stored city has that id.
C17_ErrorNamesFirstMatch ==
    [][\A city \in CityInputs :
          (addCity(city) /\ lastOp'.op = "addCity:error")
          => LET hits == {i \in 1..Len(cities) : WithinTolerance(cities[i], city)}
             IN  /\ hits # {}
                 /\ \E i \in hits : /\ \A j \in hits : i <= j
                                   /\ lastOp'.duplicateCityId = cities[i].id
                 /\ lastOp'.duplicateCityId \in CityIdsOf(cities')]_vars

\* C17 witness: addCity has just failed on a store whose two cities, with
\* different ids, are both within the tolerance of a candidate that lies on
\* the second one; the error names the first.
C17_Witness ==
    /\ lastOp.op = "addCity:error"
    /\ Len(cities) = 2
    /\ cities[1].id # cities[2].id
    /\ \E city \in CityInputs : /\ city.coordinates = cities[2].coordinates
                                /\ WithinTolerance(cities[1], city)
    /\ lastOp.duplicateCityId = cities[1].id

\* C18 (the claim as stated): no two stored cities have the same id.
C18_CityIdsUnique ==
    \A i, j \in 1..Len(cities) : i # j => cities[i].id # cities[j].id

\* C19 (the claim as stated): after updateCity(id, updates), for any updates,
\* every city that had the id still has it, and has the dateAdded it had.
C19_IdAndDateAddedImmutable ==
    [][\A id \in CityIds, updates \in CityPatches :
          updateCity(id, updates)
          => /\ Len(cities') = Len(cities)
             /\ \A i \in 1..Len(cities) :
                   cities[i].id = id
                   => /\ cities'[i].id = id
                      /\ cities'[i].dateAdded = cities[i].dateAdded]_vars

\* C20: the history is never empty and the cursor is an index into it
\* (0 <= historyIndex <= Len(history) - 1); right after a commit the cursor is
\* the last index, whether or not the commit evicted the oldest snapshot and
\* wherever the cursor stood before.
C20_CursorBounds ==
    /\ [](/\ Len(history) >= 1
          /\ 0 <= historyIndex
          /\ historyIndex <= Len(history) - 1)
    /\ [][Committed => historyIndex' = Len(history') - 1]_vars

\* C20 witness: a commit has just been made on a full history after two or
\* more undo() calls, and the cursor is at the last index.
C20_Witness ==
    /\ lastOp.op \in CommitOps
    /\ lastOp.length = maxHistorySize
    /\ lastOp.historyIndex < maxHistorySize - 2
    /\ historyIndex = Len(history) - 1

\* C21: in every state reached through the store's commands the live cities
\* and trips equal, by value, those of the snapshot at the cursor.
C21_LiveEqualsSnapshotAtCursor ==
    /\ cities = history[historyIndex + 1].cities
    /\ trips = history[historyIndex + 1].trips

\* C21 witness: a command has just been committed from a cursor that stood
\* before the end of the history, on a store that holds cities and trips.
C21_Witness ==
    /\ lastOp.op \in CommitOps
    /\ lastOp.historyIndex < lastOp.length - 1
    /\ cities # <<>>
    /\ trips # <<>>
    /\ historyIndex > 0
    /\ history[historyIndex] # history[historyIndex + 1]

\* What a command that changes no data still does: it ends without error,
\* cities and trips are as they were, one snapshot of them is added on the
\* snapshots up to the cursor (the history grows, or keeps the cap's length),
\* the cursor is the last index, canRedo() is false and canUndo() is true.
NoOpCommit(name) ==
    /\ lastOp'.op = name
    /\ cities' = cities
    /\ trips' = trips
    /\ Len(history') = IF historyIndex + 2 > maxHistorySize
                        THEN maxHistorySize ELSE historyIndex + 2
    /\ history'[Len(history')] = [cities |-> cities, trips |-> trips]
    /\ historyIndex' = Len(history') - 1
    /\ ~(historyIndex' < Len(history') - 1)
    /\ historyIndex' > 0

\* C22: updateCity, deleteCity, updateTrip and deleteTrip with an id that
\* matches nothing (no city or trip has it; for deleteCity also no trip lists
\* it) raise no error, leave cities and trips unchanged and still commit a
\* snapshot.
C22_MissingIdStillCommits ==
    [][/\ \A id \in CityIds, updates \in CityUpdates :
             (updateCity(id, updates) /\ id \notin CityIdsOf(cities))
             => NoOpCommit("updateCity")
       /\ \A id \in CityIds :
             (deleteCity(id) /\ id \notin CityIdsOf(cities) /\ ~Listed(id, trips))
             => NoOpCommit("deleteCity")
       /\ \A id \in TripIds, updates \in TripUpdates :
             (updateTrip(id, updates) /\ \A t \in 1..Len(trips) : trips[t].id # id)
             => NoOpCommit("updateTrip")
       /\ \A id \in TripIds :
             (deleteTrip(id) /\ \A t \in 1..Len(trips) : trips[t].id # id)
             => NoOpCommit("deleteTrip")]_vars

\* C22 witness: updateCity has just run on a store without cities; the
\* snapshot it committed equals the one before it and canUndo() is true.
C22_Witness ==
    /\ lastOp.op = "updateCity"
    /\ cities = <<>>
    /\ historyIndex = lastOp.historyIndex + 1
    /\ history[historyIndex + 1] = history[historyIndex]
    /\ canUndo

\* C23: updateCity ends without error and commits a snapshot of cities in
\* which the city has the updated fields, the coordinates among them, whatever
\* other cities lie within the tolerance of the new coordinates.
C23_UpdateCityNeverFails ==
    [][\A id \in CityIds, updates \in CityUpdates :
          updateCity(id, updates)
          => /\ lastOp'.op = "updateCity"
             /\ historyIndex' = Len(history') - 1
             /\ history'[Len(history')].cities = cities'
             /\ Len(cities') = Len(cities)
             /\ \A i \in 1..Len(cities) :
                   cities[i].id = id
                   => \A f \in DOMAIN updates : cities'[i][f] = updates[f]]_vars

\* C23 witness: updateCity has just moved a city onto coordinates within the
\* tolerance of another stored city.
C23_Witness ==
    /\ lastOp.op = "updateCity"
    /\ historyIndex = lastOp.historyIndex + 1
    /\ \E i, j \in 1..Len(cities) :
          /\ i # j
          /\ WithinTolerance(cities[i], cities[j])
          /\ Len(history[historyIndex].cities) = Len(cities)
          /\ history[historyIndex].cities[i].coordinates # cities[i].coordinates

\* The pairs of a trip's cityIds and dates, position by position.
Visits(trip) == [k \in 1..Len(trip.cityIds) |-> <<trip.cityIds[k], trip.dates[k]>>]

\* C24 (the claim as stated): after deleteCity(id) every trip whose dates
\* were as many as its cityIds has them as many still, and its remaining
\* (cityId, date) pairs are those it had, less the pairs of the removed id.
C24_CascadeKeepsDatesAligned ==
    [][\A id \in CityIds :
          deleteCity(id)
          => \A t \in 1..Len(trips) :
                Len(trips[t].dates) = Len(trips[t].cityIds)
                => /\ Len(trips'[t].dates) = Len(trips'[t].cityIds)
                   /\ Visits(trips'[t]) = SelectSeq(Visits(trips[t]), LAMBDA v : v[1] # id)]_vars

\* C25: after deleteCity(id) the trips are as many as before, in the same
\* order, and each has every field but cityIds as it was; a trip whose cityIds
\* became empty is still there.
C25_DeleteCityKeepsTrips ==
    [][\A id \in CityIds :
          deleteCity(id)
          => /\ Len(trips') = Len(trips)
             /\ \A t \in 1..Len(trips) :
                   /\ DOMAIN trips'[t] = DOMAIN trips[t]
                   /\ \A f \in (DOMAIN trips[t]) \ {"cityIds"} : trips'[t][f] = trips[t][f]]_vars

\* C25 witness: deleteCity has just emptied the cityIds of a trip, and the
\* trip is still stored.
C25_Witness ==
    /\ lastOp.op = "deleteCity"
    /\ historyIndex = lastOp.historyIndex + 1
    /\ \E t \in 1..Len(trips) :
          /\ trips[t].cityIds = <<>>
          /\ Len(history[historyIndex].trips) = Len(trips)
          /\ history[historyIndex].trips[t].cityIds # <<>>

\* C26: importing a file whose content is an object: a cities (trips) field
\* that is missing or no array leaves the live cities (trips) empty; the
\* preference fields the file holds take the file's values and every other
\* preference field keeps its value.
C26_LenientImport ==
    [][\A fileContent \in FileInputs \cup {exportedFile} :
          (fileContent.kind = "object" /\ handleFileChange(fileContent))
          => LET given == IF fileContent.preferences.present
                         THEN fileContent.preferences.fields ELSE EmptyObject
             IN  /\ lastOp'.op = "importData"
                 /\ ~fileContent.cities.isArray => cities' = <<>>
                 /\ ~fileContent.trips.isArray => trips' = <<>>
                 /\ DOMAIN preferences' = (DOMAIN preferences) \cup (DOMAIN given)
                 /\ \A f \in DOMAIN given : preferences'[f] = given[f]
                 /\ \A f \in (DOMAIN preferences) \ (DOMAIN given) :
                       preferences'[f] = preferences[f]]_vars

\* C26 witness: a file without cities, with a trip and a selected trip, has
\* just been imported into a store that held a city (the cursor was above 0,
\* and addCity is the one command that moves it there); the cities are empty
\* and the preference field the file does not hold has its value.
C26_Witness ==
    /\ lastOp.op = "importData"
    /\ lastOp.historyIndex > 0
    /\ cities = <<>>
    /\ trips # <<>>
    /\ preferences.selectedTripId = "t1"
    /\ preferences.defaultView = "3d"

\* C27: when the file's content is no JSON or parses to null, a number or a
\* string, the import ends in the error path: importData does not run, and
\* cities, trips, preferences, history and historyIndex are as they were.
C27_FailedImportLeavesStore ==
    [][\A fileContent \in FileInputs \cup {exportedFile} :
          (/\ fileContent.kind \in {"unparsable", "null", "number", "string"}
           /\ handleFileChange(fileContent))
          => /\ lastOp'.op = "handleFileChange:error"
             /\ UNCHANGED storeVars]_vars

\* C27 witness: an import has just failed on a store that holds cities and
\* can undo.
C27_Witness ==
    /\ lastOp.op = "handleFileChange:error"
    /\ cities # <<>>
    /\ canUndo
    /\ Len(history) = lastOp.length

C29_ReadsDoNotWrite ==
    [][lastOp'.op \in {"processedCities", "useFilteredCities"}
          => UNCHANGED <<cities, trips, history, historyIndex>>]_vars

\* C30 (the claim as stated): one click on the header's undo button, or one
\* Ctrl/Cmd+Z keydown, while canUndo() is true moves historyIndex back by
\* exactly one; one redo request while canRedo() is true moves it forward by
\* exactly one.
C30_OneRequestOneStep ==
    [][/\ (lastOp'.op \in {"clickUndo", "keydownUndo"} /\ canUndo)
             => historyIndex' = historyIndex - 1
       /\ (lastOp'.op \in {"clickRedo", "keydownRedo"} /\ canRedo)
             => historyIndex' = historyIndex + 1]_vars

====
